---------------------------- MODULE Spec2Model ----------------------------
(***************************************************************************)
(* Geobox codec (src/geobox.py) and the concentric query engine            *)
(* (src/models.py, Store.add / Store.query).                               *)
(*                                                                         *)
(* A decimal.Decimal is modelled as a record [c, e] with value c * 10^e    *)
(* (signed coefficient, exponent), and the arithmetic of the decimal       *)
(* module (exact result, then rounding half-even to the context precision) *)
(* is modelled on it.  Geobox keys are the strings format_tuple builds.    *)
(***************************************************************************)
EXTENDS Integers, Sequences, FiniteSets, TLC

(***************************************************************************)
(* Bounds of the model.                                                    *)
(***************************************************************************)
\* coordinates of the small grid are k * 10^-d, k in -MaxCoord..MaxCoord
MaxCoord == 6
\* d in 1..MaxDigits fractional digits of a small-grid coordinate
MaxDigits == 2
\* resolutions 0..MaxRes of the small grid (0 is the invalid one)
MaxRes == 2
\* slices -1..MaxSlice of the small grid (-1 and 0 are the invalid ones)
MaxSlice == 4
\* entities the datastore holds at most
MaxStores == 2
\* max_results of a query is in 0..MaxResults
MaxResults == 2

\* precision of decimal.DefaultContext, the context of a fresh thread
DefaultPrec == 28

(***************************************************************************)
(* decimal.Decimal                                                         *)
(***************************************************************************)
RECURSIVE Pow10(_)
Pow10(n) == IF n <= 0 THEN 1 ELSE 10 * Pow10(n - 1)

Abs(n) == IF n < 0 THEN -n ELSE n

Sign(n) == IF n < 0 THEN -1 ELSE 1

Min(a, b) == IF a <= b THEN a ELSE b

RECURSIVE NumDigits(_)
NumDigits(n) == IF n < 10 THEN 1 ELSE 1 + NumDigits(n \div 10)

Dec(c, e) == [c |-> c, e |-> e]

\* the coefficient of d at exponent e (e <= d.e): d.c * 10^(d.e - e)
Scaled(d, e) == d.c * Pow10(d.e - e)

DecLess(a, b) == LET e == Min(a.e, b.e) IN Scaled(a, e) < Scaled(b, e)

DecLeq(a, b) == LET e == Min(a.e, b.e) IN Scaled(a, e) <= Scaled(b, e)

DecEq(a, b) == LET e == Min(a.e, b.e) IN Scaled(a, e) = Scaled(b, e)

\* Decimal._fix: round half-even to prec significant digits
DecFix(d, prec) ==
  LET n == Abs(d.c)
      k == NumDigits(n) - prec
  IN  IF k <= 0 \/ n = 0 THEN d
      ELSE LET p  == Pow10(k)
               q  == n \div p
               r  == n % p
               up == (2 * r > p) \/ (2 * r = p /\ q % 2 = 1)
               q2 == IF up THEN q + 1 ELSE q
           IN  IF NumDigits(q2) > prec
               THEN Dec(Sign(d.c) * (q2 \div 10), d.e + k + 1)
               ELSE Dec(Sign(d.c) * q2, d.e + k)

\* Decimal.__add__ under a context of precision prec
DecAdd(a, b, prec) ==
  LET e == Min(a.e, b.e) IN DecFix(Dec(Scaled(a, e) + Scaled(b, e), e), prec)

\* Decimal.__sub__
DecSub(a, b, prec) == DecAdd(a, Dec(-b.c, b.e), prec)

\* Decimal.__mul__ by a Python int i (converted to Decimal(i), exponent 0)
DecMul(a, i, prec) == DecFix(Dec(a.c * i, a.e), prec)

\* mutant: the remainder of Python's int and float, with the sign of the
\* divisor
DecRem_sign_of_divisor(a, b, prec) ==
  IF b.c = 0 THEN [ok |-> FALSE, v |-> a]
  ELSE LET e == Min(a.e, b.e)
           x == Scaled(a, e)
           y == Abs(Scaled(b, e))
       IN  [ok |-> TRUE, v |-> DecFix(Dec(Sign(b.c) * (((x % y) + y) % y), e), prec)]

\* Decimal.__mod__: the remainder has the sign of the dividend; the
\* operation signals InvalidOperation (ok = FALSE) for a zero divisor and
\* when the integer quotient does not fit the precision (DivisionImpossible)
DecRem(a, b, prec) ==
  IF b.c = 0 THEN [ok |-> FALSE, v |-> a]
  ELSE LET e == Min(a.e, b.e)
           x == Abs(Scaled(a, e))
           y == Abs(Scaled(b, e))
           q == x \div y
       IN  IF q # 0 /\ NumDigits(q) > prec
           THEN [ok |-> FALSE, v |-> a]
           ELSE [ok |-> TRUE, v |-> DecFix(Dec(Sign(a.c) * (x % y), e), prec)]

(***************************************************************************)
(* src/geobox.py                                                           *)
(***************************************************************************)
\* mutant: the positive branch forgets to add the slice
round_slice_down_no_slice(coord, slice, prec) ==
  LET r == DecRem(coord, slice, prec)
  IN  IF ~r.ok THEN coord ELSE DecSub(coord, r.v, prec)

round_slice_down(coord, slice, prec) ==
  LET r == DecRem(coord, slice, prec)
  IN  IF ~r.ok THEN coord
      ELSE IF coord.c > 0
           THEN DecAdd(DecSub(coord, r.v, prec), slice, prec)
           ELSE DecSub(coord, r.v, prec)

\* str() of a float keeps 12 significant digits and drops trailing zeros
RECURSIVE StripZeros(_)
StripZeros(d) ==
  IF d.e < 0 /\ d.c # 0 /\ Abs(d.c) % 10 = 0
  THEN StripZeros(Dec(d.c \div 10, d.e + 1))
  ELSE d

\* decimal.Decimal(str(1.0 * slice * 10 ** -resolution)), resolution >= 0:
\* a float with an integral value prints as "N.0"
slice_decimal(slice, resolution) ==
  LET s == StripZeros(Dec(slice, -resolution))
  IN  IF s.c = 0 THEN Dec(0, -1)
      ELSE IF s.e >= 0 THEN Dec(s.c * Pow10(s.e + 1), -1)
      ELSE s

compute_tuple(lat, lon, resolution, slice) ==
  LET prec == resolution + 3
      step == slice_decimal(slice, resolution)
      adjusted_lat == round_slice_down(lat, step, prec)
      adjusted_lon == round_slice_down(lon, step, prec)
  IN  << adjusted_lat, DecSub(adjusted_lon, step, prec),
         DecSub(adjusted_lat, step, prec), adjusted_lon >>

RECURSIVE PadDigits(_, _)
PadDigits(n, width) ==
  IF width = 0 THEN "" ELSE PadDigits(n \div 10, width - 1) \o ToString(n % 10)

\* "%0.<resolution>f" % v : v to exactly `resolution` fractional digits
format_value(v, resolution) ==
  LET k == (-v.e) - resolution
      n == IF k <= 0 THEN Abs(v.c) * Pow10(-k)
           ELSE LET p  == Pow10(k)
                    q  == Abs(v.c) \div p
                    r  == Abs(v.c) % p
                IN  IF (2 * r > p) \/ (2 * r = p /\ q % 2 = 1) THEN q + 1 ELSE q
      w == Pow10(resolution)
  IN  (IF v.c < 0 THEN "-" ELSE "") \o ToString(n \div w)
        \o (IF resolution > 0 THEN "." \o PadDigits(n % w, resolution) ELSE "")

format_tuple(values, resolution) ==
  format_value(values[1], resolution) \o "|" \o
  format_value(values[2], resolution) \o "|" \o
  format_value(values[3], resolution) \o "|" \o
  format_value(values[4], resolution)

compute(lat, lon, resolution, slice) ==
  format_tuple(compute_tuple(lat, lon, resolution, slice), resolution)

\* mutant: the longitude is shifted by the latitude's delta
adjusted_box_one_delta(primary_box, step, i, j, prec) ==
  LET lat_delta == DecMul(step, i, prec)
  IN  << DecAdd(primary_box[1], lat_delta, prec), DecAdd(primary_box[2], lat_delta, prec),
         DecAdd(primary_box[3], lat_delta, prec), DecAdd(primary_box[4], lat_delta, prec) >>

\* the boxes in the order of the two nested loops (i outer, j inner)
adjusted_box(primary_box, step, i, j, prec) ==
  LET lat_delta == DecMul(step, i, prec)
      lon_delta == DecMul(step, j, prec)
  IN  << DecAdd(primary_box[1], lat_delta, prec), DecAdd(primary_box[2], lon_delta, prec),
         DecAdd(primary_box[3], lat_delta, prec), DecAdd(primary_box[4], lon_delta, prec) >>

compute_set(lat, lon, resolution, slice) ==
  LET prec == resolution + 3
      primary_box == compute_tuple(lat, lon, resolution, slice)
      step == slice_decimal(slice, resolution)
  IN  [ n \in 1..9 |->
          format_tuple(adjusted_box(primary_box, step,
                                    ((n - 1) \div 3) - 1, ((n - 1) % 3) - 1, prec),
                       resolution) ]

(***************************************************************************)
(* The codec as a state machine: one call of one codec function.           *)
(***************************************************************************)
VARIABLES
  args,     \* [lat, lon, resolution, slice] of the call
  op,       \* the function called, "none" before the call
  ret,      \* what the call returned
  context,  \* precision of the decimal context, per context (see getcontext)
  \* the datastore and one execution of Store.query
  stores,              \* the Store entities, in the order of their keys
  query,               \* the arguments of Store.query
  pc,                  \* "idle", or the place Store.query has reached
  tier,                \* index in GEOBOX_CONFIGS of the loop's params
  found_stores,        \* the dict found_stores: name -> entity (its key)
  results,             \* what the last fetch returned, until it is merged
  lookups,             \* the lookups this execution has issued so far
  stores_by_distance,  \* the list Store.query returns
  \* codec calls running in two threads at once
  thr                  \* per thread: the call, its place and its locals

codec_vars == << args, op, ret, context >>

query_vars == << stores, query, pc, tier, found_stores, results, lookups,
                 stores_by_distance >>

vars == << codec_vars, query_vars, thr >>

\* the threads of the process
Threads == {"t1", "t2"}

\* mutant: one context for the whole process
getcontext_shared(t) == "t1"

\* decimal.getcontext(): the context of the active thread; every thread has
\* a context of its own, a copy of DefaultContext until the thread changes it
getcontext(t) == t

\* decimal.getcontext().prec = resolution + 3, executed by thread t
setprec(ctx, t, resolution) == [ctx EXCEPT ![getcontext(t)] = resolution + 3]

FreshContexts == [t \in Threads |-> DefaultPrec]

\* the example coordinates of the module documentation and of test()
DocLat == Dec(3778452, -5)

DocLon == Dec(-12239532, -5)

\* (resolution, slice) of the documentation examples and of test(); the
\* resolution 7 cases of test() need more than 32 bits
DocParams == { <<5, 2>>, <<5, 10>>, <<5, 25>>, <<6, 10>>, <<6, 25>>, <<5, 15>>, <<4, 17>> }

SmallCoords(d) == { Dec(k, -d) : k \in (-MaxCoord)..MaxCoord }

\* "%f" of a value with more fractional digits than the resolution goes
\* through a binary double, whose ties no integer model decides; only a zero
\* slice returns such a value (the coordinate itself), and those calls are
\* drawn with coordinates that the resolution represents
Formattable(a) ==
  a.slice = 0 => (-a.lat.e <= a.resolution /\ -a.lon.e <= a.resolution)

\* latitude and longitude are written with the same number of digits
SmallArgs ==
  { a \in UNION { [lat : SmallCoords(d), lon : SmallCoords(d),
                   resolution : 0..MaxRes, slice : (-1)..MaxSlice] :
                  d \in 1..MaxDigits } : Formattable(a) }

DocArgs ==
  { [lat |-> DocLat, lon |-> DocLon, resolution |-> p[1], slice |-> p[2]] :
      p \in DocParams }

\* the ends of the coordinate ranges, in cells up to a whole turn wide
WideArgs ==
  [lat : {Dec(900, -1), Dec(-900, -1), Dec(1, -1)},
   lon : {Dec(1800, -1), Dec(-1800, -1), Dec(-1799, -1)},
   resolution : {1}, slice : {999, 1800, 3600}]

CodecArgs == SmallArgs \cup DocArgs \cup WideArgs

NoThreads == thr = << >>

NoQuery ==
  /\ stores = << >>
  /\ query = << >>
  /\ pc = "idle"
  /\ tier = 0
  /\ found_stores = << >>
  /\ results = << >>
  /\ lookups = << >>
  /\ stores_by_distance = << >>

CodecInit ==
  /\ args \in CodecArgs
  /\ op = "none"
  /\ ret = << >>
  /\ context = FreshContexts
  /\ NoQuery
  /\ NoThreads

\* thread t1 calls compute_tuple: it sets the precision of its context and
\* returns the 4-tuple
CallComputeTuple ==
  /\ op = "none"
  /\ op' = "compute_tuple"
  /\ context' = setprec(context, "t1", args.resolution)
  /\ ret' = compute_tuple(args.lat, args.lon, args.resolution, args.slice)
  /\ UNCHANGED << args, query_vars, thr >>

CallCompute ==
  /\ op = "none"
  /\ op' = "compute"
  /\ context' = setprec(context, "t1", args.resolution)
  /\ ret' = compute(args.lat, args.lon, args.resolution, args.slice)
  /\ UNCHANGED << args, query_vars, thr >>

CallComputeSet ==
  /\ op = "none"
  /\ op' = "compute_set"
  /\ context' = setprec(context, "t1", args.resolution)
  /\ ret' = compute_set(args.lat, args.lon, args.resolution, args.slice)
  /\ UNCHANGED << args, query_vars, thr >>

\* _round_slice_down(lat, step) as compute_tuple calls it
CallRoundSliceDown ==
  /\ op = "none"
  /\ op' = "round_slice_down"
  /\ context' = setprec(context, "t1", args.resolution)
  /\ ret' = round_slice_down(args.lat, slice_decimal(args.slice, args.resolution),
                             args.resolution + 3)
  /\ UNCHANGED << args, query_vars, thr >>

CodecNext ==
  \/ CallComputeTuple
  \/ CallCompute
  \/ CallComputeSet
  \/ CallRoundSliceDown

SpecCodec == CodecInit /\ [][CodecNext]_vars

(***************************************************************************)
(* Claims about the codec, checked under SpecCodec.                        *)
(***************************************************************************)
ValidParams(a) == a.resolution >= 1 /\ a.slice >= 1

Representable(a) == -a.lat.e <= a.resolution /\ -a.lon.e <= a.resolution

\* the points a box is probed with: the neighbours of x in x's own digits,
\* and the small grid in every number of digits
Probes(x) ==
  { Dec(x.c + k, x.e) : k \in (-MaxCoord)..MaxCoord }
    \cup UNION { SmallCoords(d) : d \in 1..MaxDigits }

StrictlyBetween(lo, x, hi) == DecLess(lo, x) /\ DecLess(x, hi)

ShiftedKey(a, i, j) ==
  LET box  == compute_tuple(a.lat, a.lon, a.resolution, a.slice)
      step == slice_decimal(a.slice, a.resolution)
      dlat == Dec(step.c * i, step.e)
      dlon == Dec(step.c * j, step.e)
  IN  format_tuple(<< DecAdd(box[1], dlat, DefaultPrec), DecAdd(box[2], dlon, DefaultPrec),
                      DecAdd(box[3], dlat, DefaultPrec), DecAdd(box[4], dlon, DefaultPrec) >>,
                   a.resolution)

\* C4: for resolution >= 1 and slice >= 1 compute_set returns 9 pairwise
\* distinct keys, the primary cell shifted by i steps of latitude and j steps
\* of longitude for every (i, j) in {-1,0,1} x {-1,0,1}, and exactly one of
\* them is the key compute returns.
C4_NeighborhoodOfNine ==
  (op = "compute_set" /\ ValidParams(args)) =>
    /\ DOMAIN ret = 1..9
    /\ \A m, n \in 1..9 : m # n => ret[m] # ret[n]
    /\ { ret[n] : n \in 1..9 }
          = { ShiftedKey(args, i, j) : i \in {-1, 0, 1}, j \in {-1, 0, 1} }
    /\ Cardinality({ n \in 1..9 :
          ret[n] = compute(args.lat, args.lon, args.resolution, args.slice) }) = 1

\* C4, witness: compute_set returned for the example of test()
C4_Witness ==
  /\ op = "compute_set"
  /\ args.lat = DocLat /\ args.lon = DocLon
  /\ args.resolution = 6 /\ args.slice = 25
  /\ ret[5] = "37.784525|-122.395325|37.784500|-122.395300"

\* C6, as claimed: a codec call with resolution <= 0 or slice <= 0 is
\* rejected, it never returns a key or a tuple; that is, every call that
\* returned had resolution >= 1 and slice >= 1.
C6_InvalidParamsRejected ==
  op \in {"compute", "compute_tuple", "compute_set"} => ValidParams(args)

\* C8, as claimed: compute returns the three keys of the module
\* documentation for lat=37.78452, lon=-122.39532 at resolution 5.
C8_DocExamples ==
  (op = "compute" /\ args.lat = DocLat /\ args.lon = DocLon /\ args.resolution = 5) =>
    /\ args.slice = 2  => ret = "37.78452|-122.39532|37.78450|-122.39530"
    /\ args.slice = 10 => ret = "37.78460|-122.39540|37.78450|-122.39530"
    /\ args.slice = 25 => ret = "37.78475|-122.39550|37.78450|-122.39525"

\* x is a whole multiple of step
IsMultiple(x, step) ==
  LET e == Min(x.e, step.e) IN Abs(Scaled(x, e)) % Abs(Scaled(step, e)) = 0

\* the call of _round_slice_down the state holds: a positive step and a
\* remainder that the context precision computes exactly
C9_Case ==
  LET step == slice_decimal(args.slice, args.resolution)
  IN  /\ op = "round_slice_down"
      /\ args.resolution >= 1
      /\ step.c > 0
      /\ DecRem(args.lat, step, args.resolution + 3).ok
      /\ DecRem(args.lat, step, args.resolution + 3)
           = DecRem(args.lat, step, DefaultPrec)

GEOBOX_CONFIGS ==
  << <<4, 5, TRUE>>, <<3, 2, TRUE>>, <<3, 8, FALSE>>, <<3, 16, FALSE>>, <<2, 5, FALSE>> >>

\* the keys of _DAY_DICTIONARY
Days == {"Monday", "Tuesday", "Wednesday", "Thursday", "Friday", "Saturday", "Sunday"}

\* query.fetch(50)
FetchLimit == 50

\* one hour_set of _make_hours: the half hours from open to close, close
\* excluded, swapped when close < open, the whole day when a bound is
\* missing; hours are counted in half hours (10.5 is 21)
hour_slots(hour_set) ==
  LET open_hr  == IF Len(hour_set) < 2 THEN 0 ELSE hour_set[1]
      close_hr == IF Len(hour_set) < 2 THEN 24 ELSE hour_set[2]
      lo == IF close_hr < open_hr THEN close_hr ELSE open_hr
      hi == IF close_hr < open_hr THEN open_hr ELSE close_hr
  IN  { 2 * lo + k : k \in 0..(2 * (hi - lo) - 1) }

\* _make_hours; the list of a day is kept as the set of its members, which
\* is what the equality filter of the query reads
make_hours(store_hours) ==
  [ dow \in DOMAIN store_hours |->
      UNION { hour_slots(store_hours[dow][n]) : n \in 1..Len(store_hours[dow]) } ]

\* the geoboxes of Store.add, tier by tier
RECURSIVE all_boxes(_, _, _)
all_boxes(lat, lon, n) ==
  IF n > Len(GEOBOX_CONFIGS) THEN << >>
  ELSE LET params == GEOBOX_CONFIGS[n]
       IN  (IF params[3]
            THEN compute_set(lat, lon, params[1], params[2])
            ELSE << compute(lat, lon, params[1], params[2]) >>)
           \o all_boxes(lat, lon, n + 1)

\* _earth_distance is floating point trigonometry, out of reach of integer
\* arithmetic; the model keeps what the ranking reads of it, a number
\* computed from the two points that grows with their separation: the
\* squared separation in units of 10^-4 degrees
earth_distance(lat1, lon1, lat2, lon2) ==
  LET dlat == Scaled(lat1, -4) - Scaled(lat2, -4)
      dlon == Scaled(lon1, -4) - Scaled(lon2, -4)
  IN  dlat * dlat + dlon * dlon

\* mutant: only the resolutions are compared
params_below_resolution(params, min_params) == params[1] < min_params[1]

\* params < min_params of Python 2: a 3-tuple against a 2-tuple, compared
\* item by item; when the two items agree the shorter tuple is the smaller
params_below(params, min_params) ==
  \/ params[1] < min_params[1]
  \/ params[1] = min_params[1] /\ params[2] < min_params[2]

\* mutant: > in place of >=
enough_found_strict(found, max_results) == Cardinality(DOMAIN found) > max_results

\* len(found_stores) >= max_results
enough_found(found, max_results) == Cardinality(DOMAIN found) >= max_results

\* the members of a set of keys in ascending order
RECURSIVE in_key_order(_)
in_key_order(S) ==
  IF S = {} THEN << >>
  ELSE LET m == CHOOSE x \in S : \A y \in S : x <= y
       IN  << m >> \o in_key_order(S \ {m})

\* self.all().filter("geoboxes =", box).filter(dow_query_string, time)
\*   .fetch(50): the keys of the entities that match, at most 50 of them
fetch(db, box, dow, time) ==
  LET hit == in_key_order({ k \in 1..Len(db) :
                 /\ \E n \in 1..Len(db[k].geoboxes) : db[k].geoboxes[n] = box
                 /\ time \in db[k].hours[dow] })
  IN  SubSeq(hit, 1, Min(Len(hit), FetchLimit))

\* the de-dupe loop: a result is kept unless its name is already a key
RECURSIVE merge(_, _, _)
merge(db, found, res) ==
  IF res = << >> THEN found
  ELSE LET k == Head(res)
       IN  merge(db,
                 IF db[k].name \in DOMAIN found THEN found
                 ELSE found @@ (db[k].name :> k),
                 Tail(res))

\* the (distance, store) tuples of the ranking loop
distance_tuples(db, q, found) ==
  { << earth_distance(q.lat, q.lon, db[found[n]].location.lat,
                      db[found[n]].location.lon), found[n] >> : n \in DOMAIN found }

\* mutant: the list is returned as the dict yields it, not sorted
sort_missing(tuples) ==
  { s \in [1..Cardinality(tuples) -> tuples] : \A m, n \in DOMAIN s : m # n => s[m] # s[n] }

\* stores_by_distance.sort(): the orders of the tuples with the distances
\* ascending; tuples of one distance are ordered by comparing the Store
\* objects, which is by their address, so any order of them can come out
sort(tuples) ==
  { s \in [1..Cardinality(tuples) -> tuples] :
      /\ \A m, n \in DOMAIN s : m # n => s[m] # s[n]
      /\ \A n \in 1..(Len(s) - 1) : s[n][1] <= s[n + 1][1] }

(***************************************************************************)
(* The requests.  Store.add runs in thread t2, Store.query in thread t1,   *)
(* one step of its loop at a time; an add can arrive between two steps.    *)
(***************************************************************************)
StoreNames == {"a", "b"}

Point(la, lo) == [lat |-> Dec(la, -4), lon |-> Dec(lo, -4)]

\* three places of one neighbourhood: the cell of tier 1 of the first query
\* point, a cell next to it (met from tier 2 on) and one met from tier 4 on
StorePoints == { Point(377659, -1224248), Point(377672, -1224262), Point(377710, -1224210) }

QueryPoints == { Point(377658, -1224247), Point(377710, -1224210) }

\* (2, 0) is what src/main.py passes
MinParams == { <<2, 0>>, <<3, 1>>, <<3, 8>>, <<5, 0>> }

\* the store_hours of an add: open all week, or open on Monday from
\* (12, 10) (the bounds swapped) and all day on the other days
HourChoices ==
  { [d \in Days |-> << <<0, 24>> >>],
    [d \in Days |-> IF d = "Monday" THEN << <<12, 10>> >> ELSE << <<9>> >>] }

\* (dow, time) of a query, the time in half hours
QueryTimes == { <<"Monday", 26>>, <<"Sunday", 20>> }

\* the geoboxes Store.add computes for a place: a table of all_boxes
geoboxes_of == [ pt \in StorePoints |-> all_boxes(pt.lat, pt.lon, 1) ]

\* the box Store.query computes for a place and a tier: a table of compute
query_box == [ pt \in QueryPoints |-> [ n \in 1..Len(GEOBOX_CONFIGS) |->
                 compute(pt.lat, pt.lon, GEOBOX_CONFIGS[n][1], GEOBOX_CONFIGS[n][2]) ] ]

Init ==
  /\ args = << >>
  /\ op = "none"
  /\ ret = << >>
  /\ context = FreshContexts
  /\ NoQuery
  /\ NoThreads

\* Store.add(name, lat, lon, store_hours, ...)
StoreAdd(name, pt, store_hours) ==
  /\ Len(stores) < MaxStores
  /\ stores' = Append(stores,
        [ name |-> name, location |-> pt,
          geoboxes |-> geoboxes_of[pt],
          hours |-> make_hours(store_hours) ])
  /\ context' = setprec(context, "t2", GEOBOX_CONFIGS[Len(GEOBOX_CONFIGS)][1])
  /\ UNCHANGED << args, op, ret, thr, query, pc, tier, found_stores, results, lookups,
                  stores_by_distance >>

\* Store.query(time, dow, lat, lon, max_results, min_params) is entered
QueryCall(t, pt, max_results, min_params) ==
  /\ pc = "idle"
  /\ query' = [ time |-> t[2], dow |-> t[1], lat |-> pt.lat, lon |-> pt.lon,
                max_results |-> max_results, min_params |-> min_params ]
  /\ found_stores' = << >>
  /\ results' = << >>
  /\ lookups' = << >>
  /\ stores_by_distance' = << >>
  /\ tier' = 1
  /\ pc' = "loop"
  /\ UNCHANGED << codec_vars, thr, stores >>

\* the for loop has run through GEOBOX_CONFIGS
QueryExhausted ==
  /\ pc = "loop"
  /\ tier > Len(GEOBOX_CONFIGS)
  /\ pc' = "rank"
  /\ UNCHANGED << codec_vars, thr, stores, query, tier, found_stores, results, lookups,
                  stores_by_distance >>

\* if len(found_stores) >= max_results: break
QueryEnough ==
  /\ pc = "loop"
  /\ tier <= Len(GEOBOX_CONFIGS)
  /\ enough_found(found_stores, query.max_results)
  /\ pc' = "rank"
  /\ UNCHANGED << codec_vars, thr, stores, query, tier, found_stores, results, lookups,
                  stores_by_distance >>

\* if params < min_params: break
QueryBelowMin ==
  /\ pc = "loop"
  /\ tier <= Len(GEOBOX_CONFIGS)
  /\ ~enough_found(found_stores, query.max_results)
  /\ params_below(GEOBOX_CONFIGS[tier], query.min_params)
  /\ pc' = "rank"
  /\ UNCHANGED << codec_vars, thr, stores, query, tier, found_stores, results, lookups,
                  stores_by_distance >>

\* the box of the tier is computed and looked up
QueryFetch ==
  /\ pc = "loop"
  /\ tier <= Len(GEOBOX_CONFIGS)
  /\ ~enough_found(found_stores, query.max_results)
  /\ ~params_below(GEOBOX_CONFIGS[tier], query.min_params)
  /\ LET params == GEOBOX_CONFIGS[tier]
         box == query_box[[lat |-> query.lat, lon |-> query.lon]][tier]
         got == fetch(stores, box, query.dow, query.time)
     IN  /\ results' = got
         /\ lookups' = Append(lookups,
               [ tier |-> tier, box |-> box, results |-> got,
                 found |-> Cardinality(DOMAIN found_stores) ])
         /\ context' = setprec(context, "t1", params[1])
  /\ pc' = "merge"
  /\ UNCHANGED << args, op, ret, thr, stores, query, tier, found_stores, stores_by_distance >>

\* the results are de-duped into found_stores; the loop goes to the next tier
QueryMerge ==
  /\ pc = "merge"
  /\ found_stores' = merge(stores, found_stores, results)
  /\ results' = << >>
  /\ tier' = tier + 1
  /\ pc' = "loop"
  /\ UNCHANGED << codec_vars, thr, stores, query, lookups, stores_by_distance >>

\* the distances are computed and the list is sorted
QueryRank ==
  /\ pc = "rank"
  /\ stores_by_distance' \in sort(distance_tuples(stores, query, found_stores))
  /\ pc' = "done"
  /\ UNCHANGED << codec_vars, thr, stores, query, tier, found_stores, results, lookups >>

\* the list has been returned; the next request can come
QueryReturn ==
  /\ pc = "done"
  /\ query' = << >>
  /\ pc' = "idle"
  /\ tier' = 0
  /\ found_stores' = << >>
  /\ results' = << >>
  /\ lookups' = << >>
  /\ stores_by_distance' = << >>
  /\ UNCHANGED << codec_vars, thr, stores >>

Next ==
  \/ \E name \in StoreNames, pt \in StorePoints, h \in HourChoices : StoreAdd(name, pt, h)
  \/ \E t \in QueryTimes, pt \in QueryPoints, m \in 0..MaxResults, mp \in MinParams :
       QueryCall(t, pt, m, mp)
  \/ QueryExhausted
  \/ QueryEnough
  \/ QueryBelowMin
  \/ QueryFetch
  \/ QueryMerge
  \/ QueryRank
  \/ QueryReturn

Spec == Init /\ [][Next]_vars


(***************************************************************************)
(* Claims about Store.query, checked under Spec.                           *)
(***************************************************************************)
Range(f) == { f[x] : x \in DOMAIN f }

\* the entities the lookups of this execution have returned
Returned == UNION { Range(lookups[j].results) : j \in DOMAIN lookups }

\* C2, as claimed: every distinct record that a lookup of the query returned
\* is exactly once in the list the query returns, records of one name
\* included.
C2_EveryReturnedRecordOnce ==
  pc = "done" =>
    \A k \in Returned :
      Cardinality({ n \in DOMAIN stores_by_distance : stores_by_distance[n][2] = k }) = 1

\* (resolution, slice) of a is below b in tuple order
LexBelow(a, b) == a[1] < b[1] \/ (a[1] = b[1] /\ a[2] < b[2])

\* the cell of a is wider than the cell of b, widths in units of 10^-5
Wider(a, b) == a[2] * Pow10(5 - a[1]) > b[2] * Pow10(5 - b[1])

\* C3, amended: a query issues at most len(GEOBOX_CONFIGS) lookups and never
\* one for a tier whose (resolution, slice) is below min_params in tuple
\* order: a lower resolution, or the same resolution and a smaller slice.
C3_NoLookupBelowMinParams ==
  /\ Len(lookups) <= Len(GEOBOX_CONFIGS)
  /\ \A j \in DOMAIN lookups :
       ~LexBelow(GEOBOX_CONFIGS[lookups[j].tier], query.min_params)

\* C3, as claimed: at most len(GEOBOX_CONFIGS) lookups, and never one for a
\* tier whose cell is wider than the cell of min_params.
C3_NoLookupWiderThanMinParams ==
  /\ Len(lookups) <= Len(GEOBOX_CONFIGS)
  /\ \A j \in DOMAIN lookups :
       ~Wider(GEOBOX_CONFIGS[lookups[j].tier], query.min_params)

\* C3, witness: the loop was left at a tier below min_params, after a lookup
\* and with fewer than max_results records found
C3_Witness ==
  /\ pc = "rank"
  /\ lookups # << >>
  /\ tier <= Len(GEOBOX_CONFIGS)
  /\ Cardinality(DOMAIN found_stores) < query.max_results
  /\ LexBelow(GEOBOX_CONFIGS[tier], query.min_params)

NamesBefore(j) ==
  { stores[k].name : k \in UNION { Range(lookups[i].results) : i \in 1..(j - 1) } }

\* C10: the lookups of an execution are those of the tiers 1, 2, ... in the
\* order of GEOBOX_CONFIGS, without a gap and each tier once, each with the
\* one key compute gives for the query point at the tier; when a lookup is
\* issued the results of all lookups before it have been merged (the number
\* of records found is the number of names they returned) and fewer than
\* max_results records are found; there is no lookup when max_results <= 0.
C10_TiersInOrderUntilStop ==
  /\ \A j \in DOMAIN lookups :
       /\ lookups[j].tier = j
       /\ j <= Len(GEOBOX_CONFIGS)
       /\ lookups[j].box = compute(query.lat, query.lon,
                                   GEOBOX_CONFIGS[j][1], GEOBOX_CONFIGS[j][2])
       /\ lookups[j].found = Cardinality(NamesBefore(j))
       /\ lookups[j].found < query.max_results
  /\ (pc # "idle" /\ query.max_results <= 0) => lookups = << >>
  /\ pc \in {"rank", "done"} =>
       \/ tier > Len(GEOBOX_CONFIGS)
       \/ Cardinality(DOMAIN found_stores) >= query.max_results
       \/ LexBelow(GEOBOX_CONFIGS[tier], query.min_params)
  /\ pc \in {"rank", "done"} => Len(lookups) = tier - 1

\* C10, witness: the loop was left at a tier that min_params allows because
\* max_results records were found, after two lookups or more
C10_Witness ==
  /\ pc = "rank"
  /\ Len(lookups) >= 2
  /\ tier <= Len(GEOBOX_CONFIGS)
  /\ query.max_results >= 1
  /\ Cardinality(DOMAIN found_stores) >= query.max_results
  /\ ~LexBelow(GEOBOX_CONFIGS[tier], query.min_params)

(***************************************************************************)
(* Codec calls in two threads.  A thread runs compute or compute_set one   *)
(* statement at a time (a loop body is one step); the scheduler may switch *)
(* threads between any two steps.  Every decimal operation of a step works *)
(* at the precision of the context decimal.getcontext() returns to the     *)
(* thread that takes the step.                                             *)
(***************************************************************************)
\* the calls a thread may be making: both functions, four resolutions
ConcCalls ==
  { [fn |-> "compute", lat |-> DocLat, lon |-> DocLon, resolution |-> 5, slice |-> 10],
    [fn |-> "compute_set", lat |-> DocLat, lon |-> DocLon, resolution |-> 4, slice |-> 17],
    [fn |-> "compute", lat |-> Dec(377659, -4), lon |-> Dec(-1224248, -4),
     resolution |-> 2, slice |-> 5],
    [fn |-> "compute_set", lat |-> Dec(12, -1), lon |-> Dec(-5, -1),
     resolution |-> 1, slice |-> 3] }

\* a thread about to make the call c; overlapped records that the other
\* thread took a step while this call was under way
ThreadStart(c) ==
  [fn |-> c.fn, lat |-> c.lat, lon |-> c.lon, resolution |-> c.resolution,
   slice |-> c.slice, pc |-> "call", slice_decimal |-> Dec(0, 0),
   adjusted_lat_coord |-> Dec(0, 0), adjusted_lon_coord |-> Dec(0, 0),
   primary_box |-> << >>, geobox_set |-> << >>, ret |-> << >>,
   overlapped |-> FALSE]

ConcInit ==
  /\ thr \in [Threads -> { ThreadStart(c) : c \in ConcCalls }]
  /\ context = FreshContexts
  /\ args = << >>
  /\ op = "none"
  /\ ret = << >>
  /\ NoQuery

\* the precision thread t computes with
Prec(t) == context[getcontext(t)]

\* thread t moves to r; a call of the other thread that is under way has
\* been overlapped
Upd(t, r) ==
  [u \in Threads |->
     IF u = t THEN r
     ELSE [thr[u] EXCEPT !.overlapped = @ \/ thr[u].pc \notin {"call", "done"}]]

\* compute_set: decimal.getcontext().prec = resolution + 3, then the call of
\* compute_tuple
SetEnter(t) ==
  /\ thr[t].pc = "call" /\ thr[t].fn = "compute_set"
  /\ context' = setprec(context, t, thr[t].resolution)
  /\ thr' = Upd(t, [thr[t] EXCEPT !.pc = "compute_tuple"])
  /\ UNCHANGED << args, op, ret, query_vars >>

\* compute_tuple: decimal.getcontext().prec = resolution + 3
TupleEnter(t) ==
  /\ \/ thr[t].pc = "call" /\ thr[t].fn = "compute"
     \/ thr[t].pc = "compute_tuple"
  /\ context' = setprec(context, t, thr[t].resolution)
  /\ thr' = Upd(t, [thr[t] EXCEPT !.pc = "parse"])
  /\ UNCHANGED << args, op, ret, query_vars >>

\* lat, lon and slice_decimal are built from strings, exactly
TupleParse(t) ==
  /\ thr[t].pc = "parse"
  /\ thr' = Upd(t, [thr[t] EXCEPT
                      !.slice_decimal = slice_decimal(thr[t].slice, thr[t].resolution),
                      !.pc = "round_lat"])
  /\ UNCHANGED << codec_vars, query_vars >>

TupleRoundLat(t) ==
  /\ thr[t].pc = "round_lat"
  /\ thr' = Upd(t, [thr[t] EXCEPT
                      !.adjusted_lat_coord =
                          round_slice_down(thr[t].lat, thr[t].slice_decimal, Prec(t)),
                      !.pc = "round_lon"])
  /\ UNCHANGED << codec_vars, query_vars >>

TupleRoundLon(t) ==
  /\ thr[t].pc = "round_lon"
  /\ thr' = Upd(t, [thr[t] EXCEPT
                      !.adjusted_lon_coord =
                          round_slice_down(thr[t].lon, thr[t].slice_decimal, Prec(t)),
                      !.pc = "tuple"])
  /\ UNCHANGED << codec_vars, query_vars >>

\* the return of compute_tuple, to compute or to compute_set
TupleReturn(t) ==
  /\ thr[t].pc = "tuple"
  /\ LET r == thr[t]
     IN  thr' = Upd(t, [r EXCEPT
                 !.primary_box =
                     << r.adjusted_lat_coord,
                        DecSub(r.adjusted_lon_coord, r.slice_decimal, Prec(t)),
                        DecSub(r.adjusted_lat_coord, r.slice_decimal, Prec(t)),
                        r.adjusted_lon_coord >>,
                 !.pc = IF r.fn = "compute" THEN "format" ELSE "slice"])
  /\ UNCHANGED << codec_vars, query_vars >>

\* compute: return format_tuple(compute_tuple(...), resolution)
ComputeFormat(t) ==
  /\ thr[t].pc = "format"
  /\ thr' = Upd(t, [thr[t] EXCEPT
                      !.ret = format_tuple(thr[t].primary_box, thr[t].resolution),
                      !.pc = "done"])
  /\ UNCHANGED << codec_vars, query_vars >>

\* compute_set: slice_decimal again, and the empty geobox_set
SetSlice(t) ==
  /\ thr[t].pc = "slice"
  /\ thr' = Upd(t, [thr[t] EXCEPT
                      !.slice_decimal = slice_decimal(thr[t].slice, thr[t].resolution),
                      !.geobox_set = << >>,
                      !.pc = "loop"])
  /\ UNCHANGED << codec_vars, query_vars >>

\* one (i, j) of the nested loops: the adjusted box, formatted and added
SetLoop(t) ==
  /\ thr[t].pc = "loop"
  /\ LET r == thr[t]
         n == Len(r.geobox_set) + 1
         box == adjusted_box(r.primary_box, r.slice_decimal,
                             ((n - 1) \div 3) - 1, ((n - 1) % 3) - 1, Prec(t))
     IN  thr' = Upd(t, [r EXCEPT
                 !.geobox_set = Append(r.geobox_set, format_tuple(box, r.resolution)),
                 !.pc = IF n = 9 THEN "return" ELSE "loop"])
  /\ UNCHANGED << codec_vars, query_vars >>

SetReturn(t) ==
  /\ thr[t].pc = "return"
  /\ thr' = Upd(t, [thr[t] EXCEPT !.ret = thr[t].geobox_set, !.pc = "done"])
  /\ UNCHANGED << codec_vars, query_vars >>

ThreadStep(t) ==
  \/ SetEnter(t)
  \/ TupleEnter(t)
  \/ TupleParse(t)
  \/ TupleRoundLat(t)
  \/ TupleRoundLon(t)
  \/ TupleReturn(t)
  \/ ComputeFormat(t)
  \/ SetSlice(t)
  \/ SetLoop(t)
  \/ SetReturn(t)

ConcNext == \E t \in Threads : ThreadStep(t)

SpecConc == ConcInit /\ [][ConcNext]_vars

(***************************************************************************)
(* Claims about concurrent codec calls, checked under SpecConc.            *)
(***************************************************************************)
\* what the call of thread record r returns when it runs alone
Alone(r) ==
  IF r.fn = "compute" THEN compute(r.lat, r.lon, r.resolution, r.slice)
  ELSE compute_set(r.lat, r.lon, r.resolution, r.slice)

\* the places of a call at which decimal arithmetic is done
Arithmetic == {"round_lat", "round_lon", "tuple", "loop"}

\* C7, no interference: when two threads run codec calls at different
\* resolutions with their steps interleaved in any order, every call that
\* has returned has returned what it returns when run alone, and at every
\* place where a call does decimal arithmetic the precision it computes with
\* is the one it set itself, resolution + 3, never the other call's.
C7_CallsDoNotInterfere ==
  (thr["t1"].resolution # thr["t2"].resolution) =>
    \A t \in Threads :
      /\ thr[t].pc = "done" => thr[t].ret = Alone(thr[t])
      /\ thr[t].pc \in Arithmetic => Prec(t) = thr[t].resolution + 3

\* both calls have returned, at different resolutions, one a compute and one
\* a compute_set, each having been overlapped by steps of the other
C7_Witness ==
  /\ thr["t1"].resolution # thr["t2"].resolution
  /\ thr["t1"].fn # thr["t2"].fn
  /\ \A t \in Threads : thr[t].pc = "done" /\ thr[t].overlapped
  /\ context["t1"] # context["t2"]

(***************************************************************************)
(* One Store.add and one probe of Store.query, for places on both sides of *)
(* the equator and of the prime meridian.                                  *)
(***************************************************************************)
\* coordinates as str() of the float prints them, within a few cells of
\* zero; two of them have more digits than the precision of the coarsest
\* tier (2 + 3) keeps
NearZero ==
  { Dec(-5, -2), Dec(-259524, -7), Dec(-1, -3), Dec(-3, -4), Dec(0, -1),
    Dec(3, -4), Dec(5, -4), Dec(12, -4), Dec(5, -3), Dec(259524, -7) }

NearZeroLat == { Dec(-259524, -7), Dec(-1, -3), Dec(3, -4), Dec(5, -4) }

IndexArgs ==
  [ p : [lat : NearZeroLat, lon : NearZero],
    q : [lat : NearZeroLat, lon : NearZero],
    tier : 1..Len(GEOBOX_CONFIGS) ]

IndexInit ==
  /\ args \in IndexArgs
  /\ op = "none"
  /\ ret = << >>
  /\ context = FreshContexts
  /\ NoQuery
  /\ NoThreads

\* Store.add(lat, lon) of the place p: the geoboxes of the new entity
IndexAdd ==
  /\ op = "none"
  /\ op' = "add"
  /\ ret' = [ geoboxes |-> all_boxes(args.p.lat, args.p.lon, 1), box |-> "" ]
  /\ context' = setprec(context, "t2", GEOBOX_CONFIGS[Len(GEOBOX_CONFIGS)][1])
  /\ UNCHANGED << args, query_vars, thr >>

\* the body of the loop of Store.query for the tier, from the place q: the
\* box the lookup filters on
IndexProbe ==
  /\ op = "add"
  /\ op' = "query"
  /\ ret' = [ ret EXCEPT !.box =
                compute(args.q.lat, args.q.lon,
                        GEOBOX_CONFIGS[args.tier][1], GEOBOX_CONFIGS[args.tier][2]) ]
  /\ context' = setprec(context, "t1", GEOBOX_CONFIGS[args.tier][1])
  /\ UNCHANGED << args, query_vars, thr >>

IndexNext ==
  \/ IndexAdd
  \/ IndexProbe

SpecIndex == IndexInit /\ [][IndexNext]_vars

(***************************************************************************)
(* Claims about the index, checked under SpecIndex.                        *)
(***************************************************************************)
\* the number of keys Store.add generates for the tiers before tier n
RECURSIVE KeysBefore(_)
KeysBefore(n) ==
  IF n <= 1 THEN 0
  ELSE KeysBefore(n - 1) + (IF GEOBOX_CONFIGS[n - 1][3] THEN 9 ELSE 1)

\* the keys of tier n among the geoboxes of an entity
TierKeys(boxes, n) ==
  { boxes[KeysBefore(n) + m] : m \in 1..(IF GEOBOX_CONFIGS[n][3] THEN 9 ELSE 1) }

\* the cell of the grid of the given step a coordinate lies in, by number:
\* cell k >= 0 is [k * step, (k + 1) * step) without the point 0, and cell
\* k < 0 is (k * step, (k + 1) * step]
CellOf(x, resolution, slice) ==
  LET step == slice_decimal(slice, resolution)
      e == Min(x.e, step.e)
      X == Scaled(x, e)
      S == Scaled(step, e)
  IN  IF X > 0 THEN X \div S ELSE -(((-X) \div S)) - 1

\* q lies in the cell of p or, with use_set, in one of the 8 cells around it
InNeighborhood(p, q, n) ==
  LET params == GEOBOX_CONFIGS[n]
      reach == IF params[3] THEN 1 ELSE 0
  IN  /\ Abs(CellOf(q.lat, params[1], params[2]) - CellOf(p.lat, params[1], params[2])) <= reach
      /\ Abs(CellOf(q.lon, params[1], params[2]) - CellOf(p.lon, params[1], params[2])) <= reach

\* C11, index/query consistency, as claimed: for every tier and all places
\* p and q, the key Store.query probes for q at the tier is among the keys
\* Store.add generated for p at that tier if and only if q lies in the cell
\* of p at that tier or, when the tier uses the set, in one of the 8 cells
\* adjacent to it.
C11_ProbeMatchesNeighborhood ==
  op = "query" =>
    (ret.box \in TierKeys(ret.geoboxes, args.tier)
       <=> InNeighborhood(args.p, args.q, args.tier))

=============================================================================
